---- MODULE Spec2Model ----
(***************************************************************************)
(* Model of stimuli_list.js: the stimulus catalog of the emotion-in-speech *)
(* experiment.  The script declares three literal collections, four input  *)
(* lists and an empty test list, fills the test list with a four-level     *)
(* nested forEach, and logs the result.  Filenames are strings; the only   *)
(* string operations used are the ones TLC implements on strings           *)
(* (\o, Len, SubSeq).                                                      *)
(***************************************************************************)
EXTENDS Integers, Sequences, FiniteSets, TLC

VARIABLES PAIRS_DISCRIMINATION, TARGETS_DRY_RVB, FILES_PRACTICE_5AFC,
          FILES_TEST_5AFC, emotions, sexes, utterances, conditions,
          pc, ei, si, ui, ci, console, view

vars == <<PAIRS_DISCRIMINATION, TARGETS_DRY_RVB, FILES_PRACTICE_5AFC,
          FILES_TEST_5AFC, emotions, sexes, utterances, conditions,
          pc, ei, si, ui, ci, console, view>>

(* ------------------------------ bounds --------------------------------- *)

\* Number of consumers (later scripts of the page) reading the catalog.
NumConsumers == 2

\* Number of times the script is evaluated (page loads) in SpecRerun.
MaxRuns == 2

Consumers == 1..NumConsumers

(* ------------------------- literal declarations ------------------------ *)

PairsLiteralSwapped ==
    << [t |-> "sad", a |-> "sad_F137.wav", b |-> "fear_F137.wav"],
       [t |-> "sad", a |-> "sad_M137.wav", b |-> "fear_F137.wav"],
       [t |-> "amu", a |-> "amu_F545.wav", b |-> "rel_F545.wav"],
       [t |-> "amu", a |-> "amu_M545.wav", b |-> "rel_M545.wav"] >>

PairsLiteral ==
    << [t |-> "sad", a |-> "sad_F137.wav", b |-> "fear_F137.wav"],
       [t |-> "sad", a |-> "sad_M137.wav", b |-> "fear_M137.wav"],
       [t |-> "amu", a |-> "amu_F545.wav", b |-> "rel_F545.wav"],
       [t |-> "amu", a |-> "amu_M545.wav", b |-> "rel_M545.wav"] >>

TargetsLiteralWrongUtt ==
    << [emo |-> "sad",  sex |-> "F", utt |-> "137"],
       [emo |-> "sad",  sex |-> "M", utt |-> "137"],
       [emo |-> "fear", sex |-> "F", utt |-> "137"],
       [emo |-> "fear", sex |-> "M", utt |-> "137"],
       [emo |-> "amu",  sex |-> "F", utt |-> "545"],
       [emo |-> "amu",  sex |-> "M", utt |-> "545"],
       [emo |-> "rel",  sex |-> "F", utt |-> "545"],
       [emo |-> "rel",  sex |-> "M", utt |-> "137"] >>

TargetsLiteral ==
    << [emo |-> "sad",  sex |-> "F", utt |-> "137"],
       [emo |-> "sad",  sex |-> "M", utt |-> "137"],
       [emo |-> "fear", sex |-> "F", utt |-> "137"],
       [emo |-> "fear", sex |-> "M", utt |-> "137"],
       [emo |-> "amu",  sex |-> "F", utt |-> "545"],
       [emo |-> "amu",  sex |-> "M", utt |-> "545"],
       [emo |-> "rel",  sex |-> "F", utt |-> "545"],
       [emo |-> "rel",  sex |-> "M", utt |-> "545"] >>

PracticeLiteralDupSex ==
    << "amu_F137.wav", "amu_M137.wav",
       "ang_F137.wav", "ang_M137.wav",
       "sad_F137.wav", "sad_M137.wav",
       "fear_F137.wav", "fear_M137.wav",
       "surp_F137.wav", "surp_F137.wav" >>

PracticeLiteral ==
    << "amu_F137.wav", "amu_M137.wav",
       "ang_F137.wav", "ang_M137.wav",
       "sad_F137.wav", "sad_M137.wav",
       "fear_F137.wav", "fear_M137.wav",
       "surp_F137.wav", "surp_M137.wav" >>

EmotionsLiteralReordered == << "ang", "amu", "sad", "fear", "surp" >>

EmotionsLiteral == << "amu", "ang", "sad", "fear", "surp" >>

SexesLiteral == << "F", "M" >>

UtterancesLiteral == << "820", "545" >>

ConditionsLiteralBadSuffix == << "", "_rvb1", "_rev2" >>

ConditionsLiteral == << "", "_rvb1", "_rvb2" >>

(* The template literal `${emo}_${sex}${utt}${cond}.wav`. *)
FilenameNoCond(emo, sex, utt, cond) == emo \o "_" \o sex \o utt \o ".wav"

Filename(emo, sex, utt, cond) == emo \o "_" \o sex \o utt \o cond \o ".wav"

(* ------------------------ filename convention -------------------------- *)

\* How a file name is read back into its parts, and the shape the naming
\* convention gives it.  Used to state the properties below; the script
\* itself only builds names, it never parses them.

Digits == {"0", "1", "2", "3", "4", "5", "6", "7", "8", "9"}

CharAt(f, i) == SubSeq(f, i, i)

\* Position of the first occurrence of ch in f at or after i; 0 when absent.
RECURSIVE IndexFrom(_, _, _)
IndexFrom(f, ch, i) ==
    IF i > Len(f) THEN 0
    ELSE IF CharAt(f, i) = ch THEN i
    ELSE IndexFrom(f, ch, i + 1)

\* Number of consecutive digits of f starting at position i.
RECURSIVE DigitRun(_, _)
DigitRun(f, i) ==
    IF i > Len(f) \/ CharAt(f, i) \notin Digits THEN 0
    ELSE 1 + DigitRun(f, i + 1)

Underscore(f)  == IndexFrom(f, "_", 1)
EmotionOf(f)   == SubSeq(f, 1, Underscore(f) - 1)
SexOf(f)       == CharAt(f, Underscore(f) + 1)
UtteranceOf(f) == SubSeq(f, Underscore(f) + 2,
                         Underscore(f) + 1 + DigitRun(f, Underscore(f) + 2))
RestOf(f)      == SubSeq(f, Underscore(f) + 2 + DigitRun(f, Underscore(f) + 2),
                         Len(f))

ConventionEmotions == {"amu", "ang", "sad", "fear", "surp", "rel"}
ConventionSexes    == {"F", "M"}
ConventionRests    == {".wav", "_rvb.wav", "_rvb1.wav", "_rvb2.wav"}

\* f has the shape {emotion}_{sex}{utteranceId}[_{reverbSuffix}].wav
WellFormed(f) ==
    /\ Underscore(f) > 1
    /\ Len(f) > Underscore(f)
    /\ EmotionOf(f) \in ConventionEmotions
    /\ SexOf(f) \in ConventionSexes
    /\ DigitRun(f, Underscore(f) + 2) >= 1
    /\ RestOf(f) \in ConventionRests

(* ------------------------------ state ---------------------------------- *)

NoView == [name |-> "none", value |-> <<>>]

\* State once the declarations have been evaluated and the outer forEach
\* is about to start, for the given four input lists.
Declared(em, sx, ut, cd) ==
    /\ PAIRS_DISCRIMINATION = PairsLiteral
    /\ TARGETS_DRY_RVB = TargetsLiteral
    /\ FILES_PRACTICE_5AFC = PracticeLiteral
    /\ FILES_TEST_5AFC = <<>>
    /\ emotions = em
    /\ sexes = sx
    /\ utterances = ut
    /\ conditions = cd
    /\ pc = "emotions"
    /\ ei = 1
    /\ si = 1
    /\ ui = 1
    /\ ci = 1
    /\ view = [c \in Consumers |-> NoView]

Init ==
    /\ Declared(EmotionsLiteral, SexesLiteral, UtterancesLiteral,
                ConditionsLiteral)
    /\ console = <<>>

catalog == <<PAIRS_DISCRIMINATION, TARGETS_DRY_RVB, FILES_PRACTICE_5AFC>>
inputs  == <<emotions, sexes, utterances, conditions>>

(* --------------------------- generation pass --------------------------- *)

\* emotions.forEach(emo => ...): next element, or the loop is over.
EmotionsForEach ==
    /\ pc = "emotions"
    /\ IF ei <= Len(emotions)
          THEN /\ pc' = "sexes"
               /\ si' = 1
               /\ ei' = ei
          ELSE /\ pc' = "log"
               /\ UNCHANGED <<ei, si>>
    /\ UNCHANGED <<catalog, inputs, FILES_TEST_5AFC, ui, ci, console, view>>

\* sexes.forEach(sex => ...)
SexesForEach ==
    /\ pc = "sexes"
    /\ IF si <= Len(sexes)
          THEN /\ pc' = "utterances"
               /\ ui' = 1
               /\ UNCHANGED <<ei, si>>
          ELSE /\ pc' = "emotions"
               /\ ei' = ei + 1
               /\ UNCHANGED <<si, ui>>
    /\ UNCHANGED <<catalog, inputs, FILES_TEST_5AFC, ci, console, view>>

\* utterances.forEach(utt => ...)
UtterancesForEach ==
    /\ pc = "utterances"
    /\ IF ui <= Len(utterances)
          THEN /\ pc' = "conditions"
               /\ ci' = 1
               /\ UNCHANGED <<si, ui>>
          ELSE /\ pc' = "sexes"
               /\ si' = si + 1
               /\ UNCHANGED <<ui, ci>>
    /\ UNCHANGED <<catalog, inputs, FILES_TEST_5AFC, ei, console, view>>

ConditionsForEachFailFast ==
    /\ pc = "conditions"
    /\ IF ci <= Len(conditions)
          THEN IF WellFormed(Filename(emotions[ei], sexes[si], utterances[ui],
                                      conditions[ci]))
                  THEN /\ FILES_TEST_5AFC' =
                             Append(FILES_TEST_5AFC,
                                    Filename(emotions[ei], sexes[si],
                                             utterances[ui], conditions[ci]))
                       /\ ci' = ci + 1
                       /\ UNCHANGED <<pc, ui>>
                  ELSE /\ pc' = "failed"
                       /\ UNCHANGED <<ci, ui, FILES_TEST_5AFC>>
          ELSE /\ pc' = "utterances"
               /\ ui' = ui + 1
               /\ UNCHANGED <<ci, FILES_TEST_5AFC>>
    /\ UNCHANGED <<catalog, inputs, ei, si, console, view>>

\* conditions.forEach(cond => { const filename = ...; FILES_TEST_5AFC.push(filename); })
ConditionsForEach ==
    /\ pc = "conditions"
    /\ IF ci <= Len(conditions)
          THEN /\ FILES_TEST_5AFC' =
                     Append(FILES_TEST_5AFC,
                            Filename(emotions[ei], sexes[si], utterances[ui],
                                     conditions[ci]))
               /\ ci' = ci + 1
               /\ UNCHANGED <<pc, ui>>
          ELSE /\ pc' = "utterances"
               /\ ui' = ui + 1
               /\ UNCHANGED <<ci, FILES_TEST_5AFC>>
    /\ UNCHANGED <<catalog, inputs, ei, si, console, view>>

\* console.log("Stage 4 ...", FILES_TEST_5AFC): the list is printed once.
LogList ==
    /\ pc = "log"
    /\ console' = Append(console, FILES_TEST_5AFC)
    /\ pc' = "loaded"
    /\ UNCHANGED <<catalog, inputs, FILES_TEST_5AFC, ei, si, ui, ci, view>>

(* ------------------------------ consumers ------------------------------ *)

CollectionNames == {"PAIRS_DISCRIMINATION", "TARGETS_DRY_RVB",
                    "FILES_PRACTICE_5AFC", "FILES_TEST_5AFC"}

Collection(n) ==
    CASE n = "PAIRS_DISCRIMINATION" -> PAIRS_DISCRIMINATION
      [] n = "TARGETS_DRY_RVB"      -> TARGETS_DRY_RVB
      [] n = "FILES_PRACTICE_5AFC"  -> FILES_PRACTICE_5AFC
      [] n = "FILES_TEST_5AFC"      -> FILES_TEST_5AFC

ReadConsuming(c, n) ==
    /\ pc = "loaded"
    /\ view' = [view EXCEPT ![c] = [name |-> n, value |-> Collection(n)]]
    /\ FILES_TEST_5AFC' = IF n = "FILES_TEST_5AFC" /\ FILES_TEST_5AFC # <<>>
                             THEN Tail(FILES_TEST_5AFC)
                             ELSE FILES_TEST_5AFC
    /\ UNCHANGED <<catalog, inputs, pc, ei, si, ui, ci, console>>

\* A later script reads one of the global constants.  The script is
\* evaluated synchronously, so reads happen only once it has run to its end.
Read(c, n) ==
    /\ pc = "loaded"
    /\ view' = [view EXCEPT ![c] = [name |-> n, value |-> Collection(n)]]
    /\ UNCHANGED <<catalog, inputs, FILES_TEST_5AFC, pc, ei, si, ui, ci,
                   console>>

(* --------------------------- specifications ---------------------------- *)

Next ==
    \/ EmotionsForEach
    \/ SexesForEach
    \/ UtterancesForEach
    \/ ConditionsForEach
    \/ LogList
    \/ \E c \in Consumers, n \in CollectionNames : Read(c, n)

Spec == Init /\ [][Next]_vars

(* ------------------- re-evaluation of the script ----------------------- *)

ReloadKeepingList ==
    /\ pc = "loaded"
    /\ Len(console) < MaxRuns
    /\ PAIRS_DISCRIMINATION' = PairsLiteral
    /\ TARGETS_DRY_RVB' = TargetsLiteral
    /\ FILES_PRACTICE_5AFC' = PracticeLiteral
    /\ FILES_TEST_5AFC' = FILES_TEST_5AFC
    /\ emotions' = EmotionsLiteral
    /\ sexes' = SexesLiteral
    /\ utterances' = UtterancesLiteral
    /\ conditions' = ConditionsLiteral
    /\ pc' = "emotions"
    /\ ei' = 1
    /\ si' = 1
    /\ ui' = 1
    /\ ci' = 1
    /\ view' = [c \in Consumers |-> NoView]
    /\ UNCHANGED console

\* The page is loaded again: every declaration is evaluated afresh, among
\* them `const FILES_TEST_5AFC = []`, and the generation pass runs again.
\* The console keeps what the earlier evaluations printed.
Reload ==
    /\ pc = "loaded"
    /\ Len(console) < MaxRuns
    /\ PAIRS_DISCRIMINATION' = PairsLiteral
    /\ TARGETS_DRY_RVB' = TargetsLiteral
    /\ FILES_PRACTICE_5AFC' = PracticeLiteral
    /\ FILES_TEST_5AFC' = <<>>
    /\ emotions' = EmotionsLiteral
    /\ sexes' = SexesLiteral
    /\ utterances' = UtterancesLiteral
    /\ conditions' = ConditionsLiteral
    /\ pc' = "emotions"
    /\ ei' = 1
    /\ si' = 1
    /\ ui' = 1
    /\ ci' = 1
    /\ view' = [c \in Consumers |-> NoView]
    /\ UNCHANGED console

NextRerun ==
    \/ Next
    \/ Reload

SpecRerun == Init /\ [][NextRerun]_vars

(* ----------------- the generation pass on edited lists ----------------- *)

\* The four input lists as the source comments invite the operator to edit
\* them: the shipped lists, and lists holding an empty, a mistyped or a
\* missing entry.
EditedEmotions   == { EmotionsLiteral, << "amu", "" >>, << "sad!" >> }
EditedSexes      == { SexesLiteral, << "X" >>, << >> }
EditedUtterances == { UtterancesLiteral, << "8a0" >> }
EditedConditions == { ConditionsLiteral, << "", "_echo" >> }

InitEdited ==
    /\ \E em \in EditedEmotions, sx \in EditedSexes,
          ut \in EditedUtterances, cd \in EditedConditions :
            Declared(em, sx, ut, cd)
    /\ console = <<>>

SpecEdited == InitEdited /\ [][Next]_vars

\* The base name of a Stage-2 target, {emo}_{sex}{utt}.wav
BaseName(tg) == tg.emo \o "_" \o tg.sex \o tg.utt \o ".wav"

Range(seq) == { seq[i] : i \in 1..Len(seq) }

Generated == pc \in {"log", "loaded"}

(* --------------------- vocabulary of the properties -------------------- *)

\* The filename the catalog is said to hold for given parts.
ExpectedName(e, s, u, c) == e \o "_" \o s \o u \o c \o ".wav"

ExpectedEmotions   == << "amu", "ang", "sad", "fear", "surp" >>
ExpectedSexes      == << "F", "M" >>
ExpectedUtterances == << "820", "545" >>
ExpectedConditions == << "", "_rvb1", "_rvb2" >>

ExpectedNames ==
    { ExpectedName(e, s, u, c) :
        e \in Range(ExpectedEmotions), s \in Range(ExpectedSexes),
        u \in Range(ExpectedUtterances), c \in Range(ExpectedConditions) }

Indices(seq) == 1..Len(seq)

NoDuplicates(seq) == \A i, j \in Indices(seq) : i # j => seq[i] # seq[j]

HasRead(c, n) == view[c].name = n /\ view[c].value = Collection(n)

(* -------------------------------- C1 ----------------------------------- *)

C4_PairsConsistent ==
    /\ Len(PAIRS_DISCRIMINATION) = 4
    /\ \A i \in Indices(PAIRS_DISCRIMINATION) :
          LET p == PAIRS_DISCRIMINATION[i] IN
            /\ SexOf(p.a) = SexOf(p.b)
            /\ UtteranceOf(p.a) = UtteranceOf(p.b)
            /\ p.t = EmotionOf(p.a)
            /\ EmotionOf(p.b) # EmotionOf(p.a)

C4_Witness ==
    /\ pc = "loaded"
    /\ \E c \in Consumers : HasRead(c, "PAIRS_DISCRIMINATION")
    /\ SexOf(PAIRS_DISCRIMINATION[2].a) = "M"
    /\ UtteranceOf(PAIRS_DISCRIMINATION[4].b) = "545"

(* -------------------------------- C5 ----------------------------------- *)

\* C5: TARGETS_DRY_RVB has exactly 8 entries; its (emo, sex) pairs are
\* exactly {sad,fear} x {F,M} and {amu,rel} x {F,M}, none repeated; sad and
\* fear entries have utt 137, amu and rel entries utt 545; the base names
\* {emo}_{sex}{utt}.wav of distinct entries are distinct.
C5_TargetsConsistent ==
    /\ Len(TARGETS_DRY_RVB) = 8
    /\ { <<TARGETS_DRY_RVB[i].emo, TARGETS_DRY_RVB[i].sex>> :
           i \in Indices(TARGETS_DRY_RVB) }
         = ({"sad", "fear"} \X {"F", "M"}) \cup ({"amu", "rel"} \X {"F", "M"})
    /\ \A i, j \in Indices(TARGETS_DRY_RVB) :
          i # j =>
            /\ <<TARGETS_DRY_RVB[i].emo, TARGETS_DRY_RVB[i].sex>>
                 # <<TARGETS_DRY_RVB[j].emo, TARGETS_DRY_RVB[j].sex>>
            /\ BaseName(TARGETS_DRY_RVB[i]) # BaseName(TARGETS_DRY_RVB[j])
    /\ \A i \in Indices(TARGETS_DRY_RVB) :
          LET tg == TARGETS_DRY_RVB[i] IN
            /\ tg.emo \in {"sad", "fear"} => tg.utt = "137"
            /\ tg.emo \in {"amu", "rel"} => tg.utt = "545"

C5_Witness ==
    /\ pc = "loaded"
    /\ \E c \in Consumers : HasRead(c, "TARGETS_DRY_RVB")
    /\ BaseName(TARGETS_DRY_RVB[8]) = "rel_M545.wav"

(* -------------------------------- C6 ----------------------------------- *)

\* C6: FILES_PRACTICE_5AFC has exactly 10 names; the emotions encoded are
\* exactly amu, ang, sad, fear, surp; each emotion has exactly two entries,
\* one of sex F and one of sex M; every entry encodes utterance 137 and has
\* no reverb suffix.
C6_PracticeConsistent ==
    /\ Len(FILES_PRACTICE_5AFC) = 10
    /\ { EmotionOf(FILES_PRACTICE_5AFC[i]) : i \in Indices(FILES_PRACTICE_5AFC) }
         = {"amu", "ang", "sad", "fear", "surp"}
    /\ \A e \in {"amu", "ang", "sad", "fear", "surp"} :
          LET of == { i \in Indices(FILES_PRACTICE_5AFC) :
                        EmotionOf(FILES_PRACTICE_5AFC[i]) = e } IN
            /\ Cardinality(of) = 2
            /\ \A x \in {"F", "M"} :
                  Cardinality({ i \in of : SexOf(FILES_PRACTICE_5AFC[i]) = x })
                    = 1
    /\ \A i \in Indices(FILES_PRACTICE_5AFC) :
          /\ UtteranceOf(FILES_PRACTICE_5AFC[i]) = "137"
          /\ RestOf(FILES_PRACTICE_5AFC[i]) = ".wav"

C6_Witness ==
    /\ pc = "loaded"
    /\ \E c \in Consumers : HasRead(c, "FILES_PRACTICE_5AFC")
    /\ EmotionOf(FILES_PRACTICE_5AFC[10]) = "surp"

(* -------------------------------- C7 ----------------------------------- *)

\* C7: every filename of the catalog (a and b of each pair, the base name of
\* each target, each practice file, each test file generated so far) has
\* the shape {emotion}_{sex}{utteranceId}[_{reverbSuffix}].wav with emotion
\* in {amu,ang,sad,fear,surp,rel}, sex in {F,M}, a non-empty digit string
\* and reverbSuffix in {rvb,rvb1,rvb2} or absent.
C7_AllNamesWellFormed ==
    /\ \A i \in Indices(PAIRS_DISCRIMINATION) :
          /\ WellFormed(PAIRS_DISCRIMINATION[i].a)
          /\ WellFormed(PAIRS_DISCRIMINATION[i].b)
    /\ \A i \in Indices(TARGETS_DRY_RVB) :
          WellFormed(BaseName(TARGETS_DRY_RVB[i]))
    /\ \A i \in Indices(FILES_PRACTICE_5AFC) :
          WellFormed(FILES_PRACTICE_5AFC[i])
    /\ \A i \in Indices(FILES_TEST_5AFC) : WellFormed(FILES_TEST_5AFC[i])

C7_Witness ==
    /\ pc = "loaded"
    /\ Len(FILES_TEST_5AFC) = 60
    /\ \E i \in Indices(FILES_TEST_5AFC) :
          RestOf(FILES_TEST_5AFC[i]) = "_rvb2.wav"
    /\ \E i \in Indices(PAIRS_DISCRIMINATION) :
          EmotionOf(PAIRS_DISCRIMINATION[i].b) = "rel"

(* -------------------------------- C8 ----------------------------------- *)

\* C8: no step changes the three literal collections or the four input
\* lists, and once the generation pass is over no step, whichever consumer
\* reads whichever collection, changes FILES_TEST_5AFC.
C8_Immutable ==
    [][ /\ UNCHANGED <<catalog, inputs>>
        /\ Generated => (Generated' /\ UNCHANGED FILES_TEST_5AFC) ]_vars

C8_Witness ==
    /\ pc = "loaded"
    /\ \A c \in Consumers : HasRead(c, "FILES_TEST_5AFC")
    /\ Len(FILES_TEST_5AFC) = 60
    /\ Len(console) = 1

(* -------------------------------- C9 ----------------------------------- *)

PcValues == {"emotions", "sexes", "utterances", "conditions", "log", "loaded"}

NestedIndex(e, s, u, c) ==
    ((((e - 1) * Len(sexes) + (s - 1)) * Len(utterances) + (u - 1))
        * Len(conditions)) + c

\* C9 as stated: construction validates every generated name, so a list
\* holding a name that is empty or off the convention is never exposed.
C9_Validated ==
    Generated => \A i \in Indices(FILES_TEST_5AFC) :
                    WellFormed(FILES_TEST_5AFC[i])

\* C9 as amended: construction validates nothing and reports no error:
\* whatever the four input lists hold, the finished list has one element for
\* every combination, in nested order, each the plain concatenation
\* {emo}_{sex}{utt}{cond}.wav of its parts, well-formed or not.
C9_NoValidation ==
    /\ pc \in PcValues
    /\ Generated =>
        /\ Len(FILES_TEST_5AFC)
             = Len(emotions) * Len(sexes) * Len(utterances) * Len(conditions)
        /\ \A e \in Indices(emotions), s \in Indices(sexes),
              u \in Indices(utterances), c \in Indices(conditions) :
                FILES_TEST_5AFC[NestedIndex(e, s, u, c)]
                  = ExpectedName(emotions[e], sexes[s], utterances[u],
                                 conditions[c])

C9_Witness ==
    /\ pc = "loaded"
    /\ \E i \in Indices(FILES_TEST_5AFC) : ~WellFormed(FILES_TEST_5AFC[i])
    /\ \E c \in Consumers : HasRead(c, "FILES_TEST_5AFC")

(* -------------------------------- C10 ---------------------------------- *)

\* C10: the Stage-4 list is generated for utterances 137 and 545: every
\* element encodes utterance 137 or 545, and amu_F137.wav and
\* amu_F137_rvb1.wav are elements of the finished list.
C10_Utterances137And545 ==
    /\ \A i \in Indices(FILES_TEST_5AFC) :
          UtteranceOf(FILES_TEST_5AFC[i]) \in {"137", "545"}
    /\ Generated =>
          /\ "amu_F137.wav" \in Range(FILES_TEST_5AFC)
          /\ "amu_F137_rvb1.wav" \in Range(FILES_TEST_5AFC)

====
